---- MODULE Spec2Model ----
(***************************************************************************)
(* Google Trends -> Google Sheets dashboard updater (src/main.py).         *)
(*                                                                         *)
(* Four specifications over one set of variables:                          *)
(*   Spec          one run of main(): connect, per-topic fetch and tab     *)
(*                 updates, log tab, with every external call able to raise *)
(*   SpecEnsure    repeated calls of get_or_create_worksheet               *)
(*   SpecRelated   format_related_queries on bounded bundles               *)
(*   SpecInterest  format_interest_data on bounded interest tables         *)
(***************************************************************************)
EXTENDS Integers, Sequences, FiniteSets, TLC

VARIABLES
    pc,       \* position of main(): a label of the step to run next
    idx,      \* index into Topics of the topic being processed
    tabs,     \* the spreadsheet: tab name -> [exists, rows, cols, content]
    tabs0,    \* the spreadsheet as it was when the run started
    data,     \* update_tabs_for_topic's local: the result of fetch_trends_data
    errors,   \* main's errors dict: topic -> message
    failed,   \* history: topic -> [at, msg] of the exception its run raised
    fetched,  \* history: topic -> the data its successful update wrote
    done,     \* history: topics whose update_tabs_for_topic returned None
    raised,   \* the exception that escaped main(), if any
    trace,    \* history: external calls made, in order
    arg,      \* argument of the pure function under check
    ret       \* its result

vars == <<pc, idx, tabs, tabs0, data, errors, failed, fetched, done, raised,
          trace, arg, ret>>

----------------------------------------------------------------------------
(* Bounds *)

MaxSamples == 2       \* rows of an interest table (SpecInterest)
MaxSrcRows == 11      \* rows of a related-queries sub-table (SpecRelated)
MaxRunSamples == 1    \* rows of the interest table a fetch returns (Spec)
MaxRunRelated == 1    \* rows of each sub-table a fetch returns (Spec)
OldRows == 3          \* rows a tab holds before the run (Spec)
OldCols == 5          \* columns a tab holds before the run (Spec)

(* Program constants *)

HeadLimit == 10       \* top_df.head(10), rising_df.head(10)
SheetCols == 20       \* resize(cols=20), add_worksheet(cols=20)
TrafficMinRows == 100   \* update_traffic_tab: rows=100
RelatedMinRows == 200   \* update_related_tab: rows=200
LogMinRows == 50      \* update_log_tab: rows=50
SydneyOffset == 11    \* Australia/Sydney is UTC+11 during the window's December

----------------------------------------------------------------------------
(* Configuration: TABS_CONFIG *)

Topics == <<"Bondi Beach", "Crisis Support">>

Keywords(t) ==
    IF t = "Bondi Beach" THEN <<"Bondi shooting">>
    ELSE <<"Lifeline", "Crisis support">>

RelatedTabName(t) == t \o " - Related"

LogTabName == "Update Log"

TabNames ==
    {Topics[i] : i \in 1..Len(Topics)}
        \cup {RelatedTabName(Topics[i]) : i \in 1..Len(Topics)}
        \cup {LogTabName}

----------------------------------------------------------------------------
(* Cells of a table.  Every cell is a record tagged by k, so that any two  *)
(* cells can be compared.                                                  *)

CInt(n) == [k |-> "int", v |-> n]
CFloat(t) == [k |-> "float", tenths |-> t]       \* the float t/10
CInf == [k |-> "inf"]                            \* float('inf')
CNone == [k |-> "none"]                          \* None / NaN
CText(cs) == [k |-> "text", chars |-> cs]        \* a str, as its characters
CStr(s) == [k |-> "str", s |-> s]                \* a str, opaque
CDt(d, h) == [k |-> "datetime", day |-> d, hour |-> h]  \* pd.Timestamp, naive
CTs(d, h) == [k |-> "tsstr", day |-> d, hour |-> h]     \* 'YYYY-MM-DD HH:00'

SeqMap(Op(_), s) == [i \in 1..Len(s) |-> Op(s[i])]

RECURSIVE SelectIdx(_, _, _)
\* the indices i of 1..n, ascending, for which keep[i]
SelectIdx(keep, i, n) ==
    IF i > n THEN <<>>
    ELSE (IF keep[i] THEN <<i>> ELSE <<>>) \o SelectIdx(keep, i + 1, n)

Min(a, b) == IF a < b THEN a ELSE b
Max(a, b) == IF a > b THEN a ELSE b

----------------------------------------------------------------------------
(* format_interest_data                                                    *)
(* A raw interest table is [index, columns, data]: index the naive-UTC     *)
(* timestamps <<day, hour>>, columns the column names, data one row of     *)
(* cells per index entry.  A normalized table is [columns, data].          *)

Table(cols, rows) == [columns |-> cols, data |-> rows]

Returned(t) == [ok |-> TRUE, table |-> t]
Raised(m) == [ok |-> FALSE, msg |-> m]

DfEmpty(df) == Len(df.index) = 0 \/ Len(df.columns) = 0

InterestPlaceholder ==
    Table(<<"Message">>, << <<CStr("No data available for this time period")>> >>)

\* .dt.tz_localize("UTC").dt.tz_convert("Australia/Sydney").dt.strftime(...)
ToSydney(c) ==
    LET h == c.hour + SydneyOffset
    IN  IF h >= 24 THEN CTs(c.day + 1, h - 24) ELSE CTs(c.day, h)

\* the dtype pandas gives a column holding these cells
Dtype(col) ==
    IF \A i \in 1..Len(col) : col[i].k = "int" THEN "int64"
    ELSE IF \A i \in 1..Len(col) : col[i].k = "none" THEN "object"
    ELSE IF \A i \in 1..Len(col) : col[i].k \in {"int", "float", "inf", "none"}
         THEN "float64"
    ELSE IF \A i \in 1..Len(col) : col[i].k \in {"datetime", "none"}
         THEN "datetime64"
    ELSE "object"

\* lambda x: None if isinstance(x, (pd.Timestamp, datetime)) else x
NullDatetime(c) == IF c.k = "datetime" THEN CNone ELSE c

DigitVal(ch) ==
    CASE ch = "0" -> 0 [] ch = "1" -> 1 [] ch = "2" -> 2 [] ch = "3" -> 3
      [] ch = "4" -> 4 [] ch = "5" -> 5 [] ch = "6" -> 6 [] ch = "7" -> 7
      [] ch = "8" -> 8 [] ch = "9" -> 9

IsDigit(ch) == ch \in {"0", "1", "2", "3", "4", "5", "6", "7", "8", "9"}

RECURSIVE ParseNat(_, _)
ParseNat(cs, acc) ==
    IF cs = <<>> THEN acc ELSE ParseNat(Tail(cs), 10 * acc + DigitVal(Head(cs)))

AllDigits(cs) == cs # <<>> /\ \A i \in 1..Len(cs) : IsDigit(cs[i])

\* what pd.to_numeric(errors="coerce") makes of a str
ParseText(cs) ==
    IF AllDigits(cs) THEN CInt(ParseNat(cs, 0))
    ELSE IF cs # <<>> /\ Head(cs) = "-" /\ AllDigits(Tail(cs))
         THEN CInt(0 - ParseNat(Tail(cs), 0))
    ELSE CNone

\* pd.to_numeric(..., errors="coerce") on one entry
ToNumeric(c) ==
    CASE c.k = "int" -> c
      [] c.k = "float" -> c
      [] c.k = "inf" -> c
      [] c.k = "none" -> c
      [] c.k = "text" -> ParseText(c.chars)

\* .fillna(0)
FillNa(c) == IF c.k = "none" THEN CInt(0) ELSE c

\* .astype(int) on one finite entry: truncation toward zero
AsInt(c) ==
    IF c.k = "float"
    THEN (IF c.tenths >= 0 THEN CInt(c.tenths \div 10)
          ELSE CInt(0 - ((0 - c.tenths) \div 10)))
    ELSE c

\* lines 158-161 on one column
CoerceColumn(col) ==
    LET nulled == IF Dtype(col) \in {"object", "datetime64"}
                  THEN SeqMap(NullDatetime, col) ELSE col
        filled == [i \in 1..Len(nulled) |-> FillNa(ToNumeric(nulled[i]))]
    IN  IF \E i \in 1..Len(filled) : filled[i].k = "inf"
        THEN Raised("Cannot convert non-finite values (NA or inf) to integer")
        ELSE Returned([i \in 1..Len(filled) |-> AsInt(filled[i])])

format_interest_data(df, keywords) ==
    IF DfEmpty(df) THEN Returned(InterestPlaceholder)
    ELSE
    LET n == Len(df.index)
        \* reset_index, rename date -> Timestamp
        cols1 == <<"Timestamp">> \o df.columns
        rows1 == [i \in 1..n |-> <<CDt(df.index[i][1], df.index[i][2])>> \o df.data[i]]
        \* drop isPartial
        keep == SelectIdx([j \in 1..Len(cols1) |-> cols1[j] # "isPartial"],
                          1, Len(cols1))
        cols2 == [j \in 1..Len(keep) |-> cols1[keep[j]]]
        Col(j) == [i \in 1..n |-> rows1[i][keep[j]]]
        \* timezone conversion and formatting, then numeric coercion
        NewCol(j) == IF cols2[j] = "Timestamp"
                     THEN Returned(SeqMap(ToSydney, Col(j)))
                     ELSE CoerceColumn(Col(j))
    IN  IF \E j \in 1..Len(cols2) : ~NewCol(j).ok
        THEN Raised((NewCol(CHOOSE j \in 1..Len(cols2) : ~NewCol(j).ok)).msg)
        ELSE Returned(Table(cols2,
                [i \in 1..n |-> [j \in 1..Len(cols2) |-> NewCol(j).table[i]]]))

----------------------------------------------------------------------------
(* format_related_queries                                                  *)
(* related_queries is a function from some keywords to [top, rising], each *)
(* CNone or a sub-table [k |-> "df", hasQuery, hasValue, rows].            *)

SubTable(hq, hv, rows) ==
    [k |-> "df", hasQuery |-> hq, hasValue |-> hv, rows |-> rows]

RelatedPlaceholder ==
    Table(<<"Message">>, << <<CStr("No related queries found")>> >>)

\* keyword_data = related_queries.get(keyword, {}); keyword_data.get(which)
SubTableOf(related_queries, keyword, which) ==
    IF keyword \in DOMAIN related_queries
    THEN (IF which = "top" THEN related_queries[keyword].top
          ELSE related_queries[keyword].rising)
    ELSE CNone

\* a head() that does not cut
DfHeadAll(rows, n) == rows

\* df.head(n)
DfHead(rows, n) == SubSeq(rows, 1, Min(n, Len(rows)))

\* lines 177-184 / 188-195: the rows one sub-table contributes
RelatedBlock(keyword, type, sub) ==
    IF sub.k = "df" /\ Len(sub.rows) > 0
    THEN LET h == DfHead(sub.rows, HeadLimit)
         IN  [i \in 1..Len(h) |->
                <<CStr(keyword), CStr(type),
                  IF sub.hasQuery THEN h[i].query ELSE CStr(""),
                  IF sub.hasValue THEN h[i].value ELSE CStr("")>>]
    ELSE <<>>

RECURSIVE RelatedRows(_, _)
RelatedRows(related_queries, keywords) ==
    IF keywords = <<>> THEN <<>>
    ELSE RelatedBlock(Head(keywords), "Top",
                      SubTableOf(related_queries, Head(keywords), "top"))
         \o RelatedBlock(Head(keywords), "Rising",
                         SubTableOf(related_queries, Head(keywords), "rising"))
         \o RelatedRows(related_queries, Tail(keywords))

format_related_queries(related_queries, keywords) ==
    LET rows == RelatedRows(related_queries, keywords)
    IN  IF rows = <<>> THEN RelatedPlaceholder
        ELSE Table(<<"Keyword", "Type", "Related Query", "Value">>, rows)

----------------------------------------------------------------------------
(* The spreadsheet.  A worksheet is [exists, rows, cols, content]; content *)
(* is the sequence of its rows of cells, blank trailing cells and rows     *)
(* left out.                                                               *)

NoSheet == [exists |-> FALSE, rows |-> 0, cols |-> 0, content |-> <<>>]

Sheet(r, c, content) ==
    [exists |-> TRUE, rows |-> r, cols |-> c, content |-> content]

\* what a grid of r rows and c columns keeps of content
Crop(content, r, c) ==
    [i \in 1..Min(r, Len(content)) |->
        SubSeq(content[i], 1, Min(c, Len(content[i])))]

\* worksheet.resize(rows=r, cols=c)
Resize(ws, r, c) ==
    [ws EXCEPT !.rows = r, !.cols = c, !.content = Crop(ws.content, r, c)]

\* spreadsheet.add_worksheet(title=tab_name, rows=r, cols=c)
AddWorksheet(r, c) == Sheet(r, c, <<>>)

\* get_or_create_worksheet, on the worksheet of that name
get_or_create_worksheet(ws, rows) ==
    IF ws.exists
    THEN (IF ws.rows < rows THEN Resize(ws, rows, SheetCols) ELSE ws)
    ELSE AddWorksheet(rows, SheetCols)

\* a clear() that clears nothing
ClearNothing(ws) == ws

\* worksheet.clear()
Clear(ws) == [ws EXCEPT !.content = <<>>]

\* header row, then data rows (include_column_header=True)
SheetValues(table) == <<SeqMap(CStr, table.columns)>> \o table.data

\* writing values at row 1, column 1 replaces the cells of that range only
Overlay(content, values) ==
    [i \in 1..Max(Len(content), Len(values)) |->
        IF i > Len(values) THEN content[i]
        ELSE IF i > Len(content) THEN values[i]
        ELSE values[i] \o SubSeq(content[i], Len(values[i]) + 1, Len(content[i]))]

Width(values) ==
    IF values = <<>> THEN 0
    ELSE LET w == {Len(values[i]) : i \in 1..Len(values)}
         IN  CHOOSE m \in w : \A x \in w : x <= m

\* set_with_dataframe(worksheet, df, row=1, col=1, include_index=False,
\*                    include_column_header=True): grows the grid if the
\* table does not fit, never shrinks it
set_with_dataframe(ws, table) ==
    LET values == SheetValues(table)
    IN  [ws EXCEPT !.rows = Max(ws.rows, Len(values)),
                   !.cols = Max(ws.cols, Width(values)),
                   !.content = Overlay(ws.content, values)]

\* worksheet.update(range_name="A1", values=log_data)
WorksheetUpdate(ws, values) == [ws EXCEPT !.content = Overlay(ws.content, values)]

RECURSIVE Join(_, _)
\* sep.join(strs)
Join(strs, sep) ==
    IF strs = <<>> THEN ""
    ELSE IF Len(strs) = 1 THEN strs[1]
    ELSE strs[1] \o sep \o Join(Tail(strs), sep)

\* status of one topic in the log
LogStatus(errs, topic) ==
    IF DOMAIN errs # {} /\ topic \in DOMAIN errs
    THEN "ERROR: " \o errs[topic]
    ELSE "OK"

\* update_log_tab: the rows written to the log tab
LogData(errs) ==
    << <<CStr("Last Updated"), [k |-> "now"]>>,
       <<CStr(""), CStr("")>>,
       <<CStr("Topics Tracked"), CStr("Keywords"), CStr("Status")>> >>
    \o [i \in 1..Len(Topics) |->
          <<CStr(Topics[i]), CStr(Join(Keywords(Topics[i]), ", ")),
            CStr(LogStatus(errs, Topics[i]))>>]
    \o << <<CStr(""), CStr("")>>,
          <<CStr("Sheets Structure"), CStr("")>>,
          <<CStr("- Traffic sheets"), CStr("Interest over time (last 24 hours)")>>,
          <<CStr("- Related sheets"), CStr("Top and rising related queries")>> >>
    \o (IF DOMAIN errs # {}
        THEN << <<CStr(""), CStr("")>>,
                <<CStr("Note"),
                  CStr("Failed topics retain previous data until next successful update")>> >>
        ELSE <<>>)

----------------------------------------------------------------------------
(* One run of main()                                                       *)

\* str(e) of the exceptions the external calls raise
Messages == {"", "rate limited"}

NoValue == [k |-> "none"]
NoData == [k |-> "none"]
EmptyMap == [x \in {} |-> x]

Event(e, x) == [e |-> e, x |-> x]

\* what a spreadsheet tab can hold before the run
OldContent == [i \in 1..OldRows |-> [j \in 1..OldCols |-> CStr("stale")]]

InitSheets == {NoSheet, Sheet(10, 26, OldContent), Sheet(1000, 26, OldContent)}

\* interest tables a fetch can return for these keywords
RunInterest(keywords) ==
    {[index |-> [i \in 1..n |-> <<14, 3 + i>>],
      columns |-> IF n = 0 THEN <<>> ELSE keywords \o <<"isPartial">>,
      data |-> [i \in 1..n |->
                  [j \in 1..Len(keywords) |-> v] \o <<CStr("False")>>]] :
        n \in 0..MaxRunSamples, v \in {CInt(37), CInf}}

\* row i of the sub-table the source returns for (keyword, which)
SourceRow(kw, which, i) ==
    [query |-> [k |-> "query", kw |-> kw, which |-> which, rank |-> i],
     value |-> CInt(100 - i)]

SourceRows(kw, which, n) == [i \in 1..n |-> SourceRow(kw, which, i)]

\* related-queries bundles a fetch can return for these keywords
RunRelated(keywords) ==
    {[kw \in {keywords[i] : i \in 1..Len(keywords)} |->
        [top |-> SubTable(TRUE, TRUE, SourceRows(kw, "top", n)),
         rising |-> IF n = 0 THEN CNone
                    ELSE SubTable(TRUE, TRUE, SourceRows(kw, "rising", n))]] :
        n \in 0..MaxRunRelated}

\* the spreadsheets the run can start from: tabs of one role alike
InitTabs ==
    {[name \in TabNames |->
        IF name = LogTabName THEN c
        ELSE IF name \in {Topics[i] : i \in 1..Len(Topics)} THEN a
        ELSE b] : a \in InitSheets, b \in InitSheets, c \in InitSheets}

Topic == Topics[idx]

\* the for loop of main (line 346): the step that follows topic i - 1
LoopNext(i) == IF i <= Len(Topics) THEN "fetch_interest" ELSE "log_get"

\* the connection error swallowed: the run goes on
PcAfterConnectErrorSwallowed == LoopNext(1)

\* lines 340-342: the connection error is re-raised
PcAfterConnectError == "aborted"

\* lines 308-312: the fetch error is returned, main goes on to sleep(2)
PcAfterFetchError == "sleep"

\* lines 350-351: if error: errors[tab_name] = error
ErrorsAfterReturn(errs, t, error) ==
    IF error # "" THEN (t :> error) @@ errs ELSE errs

\* lines 352-356: errors[tab_name] = str(e); continue
ErrorsAfterRaise(errs, t, m) == (t :> m) @@ errs

\* break instead of continue: the loop ends at the first exception
PcAfterTopicRaiseBreak(i) == "log_get"

\* line 356: continue goes to the next topic, past sleep(2)
PcAfterTopicRaise(i) == LoopNext(i + 1)

\* lines 365-366: the log tab's exception is printed, main finishes
PcAfterLogError == "done"

Init ==
    /\ pc = "connect"
    /\ idx = 1
    /\ tabs0 \in InitTabs
    /\ tabs = tabs0
    /\ data = NoData
    /\ errors = EmptyMap
    /\ failed = EmptyMap
    /\ fetched = EmptyMap
    /\ done = {}
    /\ raised = NoValue
    /\ trace = <<>>
    /\ arg = NoValue
    /\ ret = NoValue

\* lines 336-339: get_google_sheets_client(), client.open_by_key()
ConnectOk ==
    /\ pc = "connect"
    /\ pc' = LoopNext(1)
    /\ idx' = 1
    /\ trace' = Append(trace, Event("connect", ""))
    /\ UNCHANGED <<tabs, tabs0, data, errors, failed, fetched, done, raised, arg, ret>>

\* lines 340-342: either call raises
ConnectFail ==
    /\ pc = "connect"
    /\ \E m \in Messages, at \in {"credentials", "open"} :
        /\ trace' = Append(trace, Event("connect_error", at))
        /\ pc' = PcAfterConnectError
        /\ raised' = CStr(m)
    /\ UNCHANGED <<idx, tabs, tabs0, data, errors, failed, fetched, done, arg, ret>>

\* a fetch error handler that also blanks the topic's tabs
FetchErrorClearing(m, events) ==
    /\ trace' = trace \o events
    /\ failed' = (Topic :> [at |-> "fetch", msg |-> m]) @@ failed
    /\ errors' = ErrorsAfterReturn(errors, Topic, m)
    /\ pc' = PcAfterFetchError
    /\ data' = NoData
    /\ tabs' = [tabs EXCEPT ![Topic] = Clear(@), ![RelatedTabName(Topic)] = Clear(@)]
    /\ UNCHANGED <<idx, tabs0, fetched, done, raised, arg, ret>>

\* the effect on main of fetch_trends_data raising m (lines 308-312, 350-351)
FetchError(m, events) ==
    /\ trace' = trace \o events
    /\ failed' = (Topic :> [at |-> "fetch", msg |-> m]) @@ failed
    /\ errors' = ErrorsAfterReturn(errors, Topic, m)
    /\ pc' = PcAfterFetchError
    /\ data' = NoData
    /\ UNCHANGED <<idx, tabs, tabs0, fetched, done, raised, arg, ret>>

\* the effect on main of a tab update raising m (lines 352-356)
TopicRaise(at, m, events) ==
    /\ trace' = trace \o events
    /\ failed' = (Topic :> [at |-> at, msg |-> m]) @@ failed
    /\ errors' = ErrorsAfterRaise(errors, Topic, m)
    /\ pc' = PcAfterTopicRaise(idx)
    /\ idx' = idx + 1
    /\ data' = NoData
    /\ UNCHANGED <<tabs, tabs0, fetched, done, raised, arg, ret>>

\* lines 111-117: build_payload, interest_over_time, sleep(1)
FetchInterestOk ==
    /\ pc = "fetch_interest"
    /\ \E df \in RunInterest(Keywords(Topic)) :
        data' = [interest_over_time |-> df, related_queries |-> EmptyMap]
    /\ trace' = trace \o <<Event("interest", Topic), Event("sleep1", Topic)>>
    /\ pc' = "fetch_related"
    /\ UNCHANGED <<idx, tabs, tabs0, errors, failed, fetched, done, raised, arg, ret>>

FetchInterestFail ==
    /\ pc = "fetch_interest"
    /\ \E m \in Messages : FetchError(m, <<Event("interest", Topic)>>)

\* lines 120-125: related_queries, return
FetchRelatedOk ==
    /\ pc = "fetch_related"
    /\ \E rq \in RunRelated(Keywords(Topic)) :
        data' = [data EXCEPT !.related_queries = rq]
    /\ trace' = Append(trace, Event("related", Topic))
    /\ pc' = "traffic_get"
    /\ UNCHANGED <<idx, tabs, tabs0, errors, failed, fetched, done, raised, arg, ret>>

FetchRelatedFail ==
    /\ pc = "fetch_related"
    /\ \E m \in Messages : FetchError(m, <<Event("related", Topic)>>)

\* line 359: sleep(2), then the next iteration of the loop
Sleep ==
    /\ pc = "sleep"
    /\ trace' = Append(trace, Event("sleep2", Topic))
    /\ pc' = LoopNext(idx + 1)
    /\ idx' = idx + 1
    /\ UNCHANGED <<tabs, tabs0, data, errors, failed, fetched, done, raised, arg, ret>>

\* the traffic tab or the related tab of the current topic
TabOf(which) == IF which = "traffic" THEN Topic ELSE RelatedTabName(Topic)

MinRowsOf(which) == IF which = "traffic" THEN TrafficMinRows ELSE RelatedMinRows

\* the calls get_or_create_worksheet makes on the spreadsheet
EnsureEvents(ws, rows, name) ==
    <<Event("lookup", name)>>
    \o (IF ~ws.exists THEN <<Event("add", name)>>
        ELSE IF ws.rows < rows THEN <<Event("resize", name)>>
        ELSE <<>>)

\* lines 225 / 244: worksheet = get_or_create_worksheet(...)
TabGetOk(which) ==
    /\ pc = which \o "_get"
    /\ tabs' = [tabs EXCEPT ![TabOf(which)] =
                    get_or_create_worksheet(@, MinRowsOf(which))]
    /\ trace' = trace \o EnsureEvents(tabs[TabOf(which)], MinRowsOf(which), TabOf(which))
    /\ pc' = which \o "_clear"
    /\ UNCHANGED <<idx, tabs0, data, errors, failed, fetched, done, raised, arg, ret>>

\* the lookup, the resize or the add_worksheet raises
TabGetFail(which) ==
    /\ pc = which \o "_get"
    /\ \E m \in Messages :
        TopicRaise(which \o "_get", m, <<Event("lookup", TabOf(which))>>)

\* lines 226 / 245: worksheet.clear()
TabClearOk(which) ==
    /\ pc = which \o "_clear"
    /\ tabs' = [tabs EXCEPT ![TabOf(which)] = Clear(@)]
    /\ trace' = Append(trace, Event("clear", TabOf(which)))
    /\ pc' = which \o "_write"
    /\ UNCHANGED <<idx, tabs0, data, errors, failed, fetched, done, raised, arg, ret>>

TabClearFail(which) ==
    /\ pc = which \o "_clear"
    /\ \E m \in Messages : TopicRaise(which \o "_clear", m, <<>>)

\* lines 229 / 248: the normalized table, or the exception normalizing raises
Formatted(which) ==
    IF which = "traffic"
    THEN format_interest_data(data.interest_over_time, Keywords(Topic))
    ELSE Returned(format_related_queries(data.related_queries, Keywords(Topic)))

\* lines 229-232 / 248-251: format, then set_with_dataframe
TabWriteOk(which) ==
    /\ pc = which \o "_write"
    /\ Formatted(which).ok
    /\ tabs' = [tabs EXCEPT ![TabOf(which)] =
                    set_with_dataframe(@, Formatted(which).table)]
    /\ trace' = Append(trace, Event("write", TabOf(which)))
    /\ IF which = "traffic"
       THEN pc' = "related_get" /\ UNCHANGED <<data, fetched, done>>
       ELSE /\ pc' = "sleep"
            /\ data' = NoData
            /\ fetched' = (Topic :> data) @@ fetched
            /\ done' = done \cup {Topic}
    /\ UNCHANGED <<idx, tabs0, errors, failed, raised, arg, ret>>

\* normalizing raises: nothing is written
TabFormatFail(which) ==
    /\ pc = which \o "_write"
    /\ ~Formatted(which).ok
    /\ TopicRaise(which \o "_format", Formatted(which).msg, <<>>)

\* set_with_dataframe raises
TabWriteFail(which) ==
    /\ pc = which \o "_write"
    /\ Formatted(which).ok
    /\ \E m \in Messages : TopicRaise(which \o "_write", m, <<>>)

TrafficGetOk == TabGetOk("traffic")
TrafficGetFail == TabGetFail("traffic")
TrafficClearOk == TabClearOk("traffic")
TrafficClearFail == TabClearFail("traffic")
TrafficWriteOk == TabWriteOk("traffic")
TrafficFormatFail == TabFormatFail("traffic")
TrafficWriteFail == TabWriteFail("traffic")
RelatedGetOk == TabGetOk("related")
RelatedGetFail == TabGetFail("related")
RelatedClearOk == TabClearOk("related")
RelatedClearFail == TabClearFail("related")
RelatedWriteOk == TabWriteOk("related")
RelatedWriteFail == TabWriteFail("related")

\* line 262: update_log_tab's get_or_create_worksheet
LogGetOk ==
    /\ pc = "log_get"
    /\ tabs' = [tabs EXCEPT ![LogTabName] = get_or_create_worksheet(@, LogMinRows)]
    /\ trace' = trace \o <<Event("log", "")>>
                      \o EnsureEvents(tabs[LogTabName], LogMinRows, LogTabName)
    /\ pc' = "log_clear"
    /\ UNCHANGED <<idx, tabs0, data, errors, failed, fetched, done, raised, arg, ret>>

\* line 263: worksheet.clear()
LogClearOk ==
    /\ pc = "log_clear"
    /\ tabs' = [tabs EXCEPT ![LogTabName] = Clear(@)]
    /\ trace' = Append(trace, Event("clear", LogTabName))
    /\ pc' = "log_write"
    /\ UNCHANGED <<idx, tabs0, data, errors, failed, fetched, done, raised, arg, ret>>

\* lines 265-291: build log_data, worksheet.update
LogWriteOk ==
    /\ pc = "log_write"
    /\ tabs' = [tabs EXCEPT ![LogTabName] = WorksheetUpdate(@, LogData(errors))]
    /\ trace' = Append(trace, Event("write", LogTabName))
    /\ pc' = "done"
    /\ UNCHANGED <<idx, tabs0, data, errors, failed, fetched, done, raised, arg, ret>>

\* lines 365-366: any call of update_log_tab raises
LogFail ==
    /\ pc \in {"log_get", "log_clear", "log_write"}
    /\ trace' = trace \o (IF pc = "log_get" THEN <<Event("log", "")>> ELSE <<>>)
                      \o <<Event("log_error", pc)>>
    /\ pc' = PcAfterLogError
    /\ raised' = IF PcAfterLogError = "done" THEN raised ELSE CStr("log")
    /\ UNCHANGED <<idx, tabs, tabs0, data, errors, failed, fetched, done, arg, ret>>

Next ==
    \/ ConnectOk \/ ConnectFail
    \/ FetchInterestOk \/ FetchInterestFail
    \/ FetchRelatedOk \/ FetchRelatedFail
    \/ TrafficGetOk \/ TrafficGetFail
    \/ TrafficClearOk \/ TrafficClearFail
    \/ TrafficWriteOk \/ TrafficFormatFail \/ TrafficWriteFail
    \/ RelatedGetOk \/ RelatedGetFail
    \/ RelatedClearOk \/ RelatedClearFail
    \/ RelatedWriteOk \/ RelatedWriteFail
    \/ Sleep
    \/ LogGetOk \/ LogClearOk \/ LogWriteOk \/ LogFail

Spec == Init /\ [][Next]_vars

----------------------------------------------------------------------------
(* Properties of a run of main()                                           *)

TopicSet == {Topics[i] : i \in 1..Len(Topics)}

\* the calls that change a tab
Mutating == {"add", "resize", "clear", "write"}

Touched(name) ==
    \E j \in 1..Len(trace) : trace[j].x = name /\ trace[j].e \in Mutating

TabsAsBefore(t) ==
    /\ tabs[t] = tabs0[t]
    /\ tabs[RelatedTabName(t)] = tabs0[RelatedTabName(t)]

FetchFailed(t) == t \in DOMAIN failed /\ failed[t].at = "fetch"

\* C1: a topic whose fetch raised has neither of its tabs created, resized,
\* cleared or written in the run; both hold what they held before it.
C1_FetchErrorLeavesTabs ==
    \A t \in TopicSet :
        FetchFailed(t) =>
            /\ TabsAsBefore(t)
            /\ ~Touched(t)
            /\ ~Touched(RelatedTabName(t))

\* the run is over, the first topic's fetch failed over tabs that held
\* content, and the second topic was updated
C1_Witness ==
    /\ pc = "done"
    /\ FetchFailed(Topics[1])
    /\ tabs0[Topics[1]].content # <<>>
    /\ tabs0[RelatedTabName(Topics[1])].content # <<>>
    /\ Topics[2] \in done

\* C2 (as claimed): whenever a topic fails, at whichever point, its error is
\* recorded and both of its tabs are untouched.  The recording of an empty
\* message is left to C3; here a failed topic with a non-empty message must
\* be in the errors mapping, and every failed topic's tabs must be as before.
C2_FailedTopicUntouched ==
    \A t \in DOMAIN failed :
        /\ failed[t].msg # "" => (t \in DOMAIN errors /\ errors[t] = failed[t].msg)
        /\ TabsAsBefore(t)

LogWritten ==
    /\ pc = "done"
    /\ trace[Len(trace)] = Event("write", LogTabName)

\* the status cell of topic i in the written log tab
LogRowStatus(i) == tabs[LogTabName].content[3 + i][3]

\* C3 (as claimed): a topic that failed with message m, the empty string
\* included, is mapped to m in errors and reads "ERROR: m" in the log tab;
\* a topic that did not fail is absent from errors and reads "OK".
C3_OutcomeAndLogStatus ==
    pc \in {"log_get", "log_clear", "log_write", "done"} =>
        \A i \in 1..Len(Topics) :
            LET t == Topics[i] IN
            IF t \in DOMAIN failed
            THEN /\ t \in DOMAIN errors
                 /\ errors[t] = failed[t].msg
                 /\ LogWritten => LogRowStatus(i) = CStr("ERROR: " \o failed[t].msg)
            ELSE /\ t \notin DOMAIN errors
                 /\ LogWritten => LogRowStatus(i) = CStr("OK")

Connected == trace # <<>> /\ trace[1].e = "connect"

\* the topics whose fetch was started, in order
Attempts ==
    LET at == SelectIdx([j \in 1..Len(trace) |-> trace[j].e = "interest"],
                        1, Len(trace))
    IN  [n \in 1..Len(at) |-> trace[at[n]].x]

LogAttempts == {j \in 1..Len(trace) : trace[j].e = "log"}

\* C4: once the spreadsheet is open, every topic is attempted exactly once
\* in configured order, the log tab write is attempted exactly once and only
\* after the last topic, and no exception escapes main, whichever calls fail.
C4_EveryTopicOnceThenLog ==
    Connected =>
        /\ raised = NoValue
        /\ pc # "aborted"
        /\ Attempts = SubSeq(Topics, 1, Len(Attempts))
        /\ Cardinality(LogAttempts) <= 1
        /\ \A j \in LogAttempts :
              /\ Attempts = Topics
              /\ \A n \in j..Len(trace) : trace[n].e # "interest"
        /\ pc = "done" => (Attempts = Topics /\ Cardinality(LogAttempts) = 1)

\* the run finished after one topic failed at its fetch, the other at a tab
\* write, and the log write failed too
C4_Witness ==
    /\ pc = "done"
    /\ FetchFailed(Topics[1])
    /\ Topics[2] \in DOMAIN failed
    /\ failed[Topics[2]].at = "traffic_write"
    /\ \E j \in 1..Len(trace) : trace[j].e = "log_error"

ConnectFailed == trace # <<>> /\ trace[1].e = "connect_error"

\* C8: when credential resolution or opening the spreadsheet fails, main
\* aborts with the error propagated: no fetch, no tab call, no log write.
C8_ConnectErrorAborts ==
    ConnectFailed =>
        /\ pc = "aborted"
        /\ raised # NoValue
        /\ Len(trace) = 1
        /\ tabs = tabs0
        /\ errors = EmptyMap

C8_Witness ==
    /\ ConnectFailed
    /\ trace[1].x = "open"
    /\ raised = CStr("rate limited")
    /\ \E name \in TabNames : tabs0[name].exists

\* C9 (as claimed): between any two successive fetches the inter-topic
\* sleep(2) occurs, whatever the outcome of the earlier topic.
C9_PauseBetweenTopics ==
    \A i, j \in 1..Len(trace) :
        (i < j /\ trace[i].e = "interest" /\ trace[j].e = "interest") =>
            \E n \in (i + 1)..(j - 1) : trace[n].e = "sleep2"

InterestSheet(t) ==
    SheetValues(format_interest_data(fetched[t].interest_over_time,
                                     Keywords(t)).table)

RelatedSheet(t) ==
    SheetValues(format_related_queries(fetched[t].related_queries, Keywords(t)))

\* C10: every write to a tab follows a clear of that tab with no other write
\* to it in between, and once a topic's run has succeeded each of its two
\* tabs holds exactly the header and data rows of this run's normalized
\* table from row 1, column 1; the written log tab holds exactly its rows.
C10_ClearThenWrite ==
    /\ \A j \in 1..Len(trace) :
          trace[j].e = "write" =>
              \E i \in 1..(j - 1) :
                  /\ trace[i] = Event("clear", trace[j].x)
                  /\ \A n \in (i + 1)..(j - 1) :
                        ~(trace[n].x = trace[j].x /\ trace[n].e \in Mutating)
    /\ \A t \in done :
          /\ tabs[t].content = InterestSheet(t)
          /\ tabs[RelatedTabName(t)].content = RelatedSheet(t)
    /\ LogWritten => tabs[LogTabName].content = LogData(errors)

\* a topic succeeded over tabs that held content, with data in both tables
C10_Witness ==
    \E t \in done :
        /\ tabs0[t].content # <<>>
        /\ tabs0[RelatedTabName(t)].content # <<>>
        /\ Len(fetched[t].interest_over_time.index) > 0
        /\ Len(RelatedSheet(t)) > 2
        /\ LogWritten

----------------------------------------------------------------------------
(* SpecEnsure: get_or_create_worksheet called again and again              *)

EnsureNames == {Topics[1], LogTabName}

EnsureSheets ==
    {NoSheet} \cup {Sheet(r, c, OldContent) :
                        r \in {10, 50, 100, 150, 200, 1000}, c \in {10, 20, 26}}

EnsureMinRows == {1, LogMinRows, TrafficMinRows, RelatedMinRows, 1001}

Idle ==
    /\ pc = "call"
    /\ idx = 1
    /\ data = NoData
    /\ errors = EmptyMap
    /\ failed = EmptyMap
    /\ fetched = EmptyMap
    /\ done = {}
    /\ raised = NoValue
    /\ trace = <<>>

InitEnsure ==
    /\ Idle
    /\ tabs0 \in [EnsureNames -> EnsureSheets]
    /\ tabs = tabs0
    /\ arg = NoValue
    /\ ret = NoValue

\* one call get_or_create_worksheet(spreadsheet, name, rows); arg and ret
\* keep the call and the worksheet it returned
EnsureTab ==
    \E name \in EnsureNames, rows \in EnsureMinRows :
        /\ tabs' = [tabs EXCEPT ![name] = get_or_create_worksheet(@, rows)]
        /\ arg' = [k |-> "call", name |-> name, rows |-> rows]
        /\ ret' = tabs'[name]
        /\ UNCHANGED <<pc, idx, tabs0, data, errors, failed, fetched, done,
                       raised, trace>>

NextEnsure == EnsureTab

SpecEnsure == InitEnsure /\ [][NextEnsure]_vars

\* C5 (as claimed): a call never reduces an existing tab's row count or
\* column count, and a second call for the same name with a smaller
\* min_rows leaves the row count the first call left.
C5_NeverShrinks ==
    [][/\ \A name \in EnsureNames :
            tabs[name].exists =>
                /\ tabs'[name].rows >= tabs[name].rows
                /\ tabs'[name].cols >= tabs[name].cols
       /\ (arg.k = "call" /\ arg'.name = arg.name /\ arg'.rows < arg.rows) =>
            ret'.rows = ret.rows]_vars

----------------------------------------------------------------------------
(* SpecRelated: format_related_queries on bounded bundles                  *)

KeywordLists == {Keywords(Topics[i]) : i \in 1..Len(Topics)}

\* a sub-table of n source rows, or None when n < 0
SubTableOfLen(kw, which, n, hq, hv) ==
    IF n < 0 THEN CNone ELSE SubTable(hq, hv, SourceRows(kw, which, n))

\* the lengths of a sub-table: none (-1), empty, one row, and the lengths
\* around the cut of head() up to MaxSrcRows
SrcLens == {-1, 0, 1} \cup ((HeadLimit - 1)..MaxSrcRows)

\* the bundles over these keywords: each keyword is missing from the dict,
\* or maps to a top and a rising entry, each None or a table
Bundles(kws, hq, hv) ==
    LET K == {kws[i] : i \in 1..Len(kws)}
    IN  {[kw \in D |->
            [top |-> SubTableOfLen(kw, "top", len[kw][1], hq, hv),
             rising |-> SubTableOfLen(kw, "rising", len[kw][2], hq, hv)]] :
         D \in SUBSET K,
         len \in [K -> SrcLens \X SrcLens]}

InitRelated ==
    /\ Idle
    /\ tabs0 = EmptyMap
    /\ tabs = tabs0
    /\ \E kws \in KeywordLists, cols \in {<<TRUE, TRUE>>, <<FALSE, FALSE>>} :
        \E rq \in Bundles(kws, cols[1], cols[2]) :
            arg = [related_queries |-> rq, keywords |-> kws]
    /\ ret = NoValue

FormatRelated ==
    /\ pc = "call"
    /\ ret' = format_related_queries(arg.related_queries, arg.keywords)
    /\ pc' = "returned"
    /\ UNCHANGED <<idx, tabs, tabs0, data, errors, failed, fetched, done,
                   raised, trace, arg>>

NextRelated == FormatRelated

SpecRelated == InitRelated /\ [][NextRelated]_vars

ArgKeywords == {arg.keywords[i] : i \in 1..Len(arg.keywords)}

Src(kw, which) == SubTableOf(arg.related_queries, kw, which)

SrcLen(kw, which) == IF Src(kw, which).k = "df" THEN Len(Src(kw, which).rows) ELSE 0

TypeName(which) == IF which = "top" THEN "Top" ELSE "Rising"

OutRows == IF ret.columns = <<"Message">> THEN <<>> ELSE ret.data

\* the positions of the output rows of one (keyword, type) pair, ascending
Picked(kw, which) ==
    SelectIdx([j \in 1..Len(OutRows) |->
                  OutRows[j][1] = CStr(kw) /\ OutRows[j][2] = CStr(TypeName(which))],
              1, Len(OutRows))

KwPos(row) == CHOOSE i \in 1..Len(arg.keywords) : CStr(arg.keywords[i]) = row[1]

\* C6: format_related_queries emits at most 10 rows per (keyword, type)
\* pair, namely the first min(10, n) source rows in source order, ordered by
\* keyword in the given order and 'Top' before 'Rising' within a keyword.
C6_HeadTenInOrder ==
    pc = "returned" =>
        /\ \A kw \in ArgKeywords, which \in {"top", "rising"} :
              LET p == Picked(kw, which)
                  src == Src(kw, which)
              IN  /\ Len(p) <= HeadLimit
                  /\ Len(p) = Min(HeadLimit, SrcLen(kw, which))
                  /\ \A i \in 1..Len(p) :
                        /\ OutRows[p[i]][3] =
                              (IF src.hasQuery THEN src.rows[i].query ELSE CStr(""))
                        /\ OutRows[p[i]][4] =
                              (IF src.hasValue THEN src.rows[i].value ELSE CStr(""))
        /\ \A j \in 1..Len(OutRows) :
              /\ \E i \in 1..Len(arg.keywords) : CStr(arg.keywords[i]) = OutRows[j][1]
              /\ OutRows[j][2] \in {CStr("Top"), CStr("Rising")}
        /\ \A a, b \in 1..Len(OutRows) :
              a < b =>
                  \/ KwPos(OutRows[a]) < KwPos(OutRows[b])
                  \/ /\ KwPos(OutRows[a]) = KwPos(OutRows[b])
                     /\ ~(OutRows[a][2] = CStr("Rising") /\ OutRows[b][2] = CStr("Top"))

\* two keywords, each with a top and a rising table of more than 10 rows
C6_Witness ==
    /\ pc = "returned"
    /\ Len(arg.keywords) = 2
    /\ \A kw \in ArgKeywords, which \in {"top", "rising"} :
          SrcLen(kw, which) > HeadLimit
    /\ Len(OutRows) = 4 * HeadLimit

----------------------------------------------------------------------------
(* SpecInterest: format_interest_data on bounded interest tables           *)

\* the entries a value column of the source table can hold
Entries ==
    {CInt(0), CInt(37), CInt(-1), CFloat(375), CInf, CNone,
     CText(<<"3", "7">>), CText(<<"-", "7">>), CText(<<"x">>), CDt(14, 4)}

\* the interest tables over these keywords, with or without isPartial
InterestInputs(kws) ==
    {[index |-> [i \in 1..n |-> <<14, 12 + i>>], columns |-> <<>>, data |-> [i \in 1..n |-> <<>>]] :
        n \in {0}}
    \cup
    {[index |-> [i \in 1..n |-> <<14, 12 + i>>],
      columns |-> IF partial THEN kws \o <<"isPartial">> ELSE kws,
      data |-> [i \in 1..n |->
                  [j \in 1..Len(kws) |-> cells[i, j]]
                  \o (IF partial THEN <<CStr("False")>> ELSE <<>>)]] :
        n \in 1..MaxSamples, partial \in BOOLEAN,
        cells \in [(1..MaxSamples) \X (1..Len(kws)) -> Entries]}

InitInterest ==
    /\ Idle
    /\ tabs0 = EmptyMap
    /\ tabs = tabs0
    /\ \E kws \in KeywordLists :
        \E df \in InterestInputs(kws) :
            arg = [df |-> df, keywords |-> kws]
    /\ ret = NoValue

FormatInterest ==
    /\ pc = "call"
    /\ ret' = format_interest_data(arg.df, arg.keywords)
    /\ pc' = "returned"
    /\ UNCHANGED <<idx, tabs, tabs0, data, errors, failed, fetched, done,
                   raised, trace, arg>>

NextInterest == FormatInterest

SpecInterest == InitInterest /\ [][NextInterest]_vars

\* an entry that is not a number and does not read as one
LooksNumeric(cs) ==
    \/ cs # <<>> /\ \A i \in 1..Len(cs) : IsDigit(cs[i])
    \/ Len(cs) > 1 /\ cs[1] = "-" /\ \A i \in 2..Len(cs) : IsDigit(cs[i])

Unparseable(c) ==
    \/ c.k \in {"none", "datetime"}
    \/ c.k = "text" /\ ~LooksNumeric(c.chars)

\* the column of the input that output column j comes from
InputCol(j) == CHOOSE c \in 1..Len(arg.df.columns) : arg.df.columns[c] = ret.table.columns[j]

\* C7 (as claimed): for a non-empty interest table, every value column of
\* the output holds only non-negative integers, and every input entry that
\* is not parseable as a number is exactly 0 in the output.
C7_ValuesNonNegativeIntegers ==
    (pc = "returned" /\ ~DfEmpty(arg.df) /\ ret.ok) =>
        \A j \in 1..Len(ret.table.columns) :
            ret.table.columns[j] # "Timestamp" =>
                \A i \in 1..Len(ret.table.data) :
                    LET out == ret.table.data[i][j]
                        in == arg.df.data[i][InputCol(j)]
                    IN  /\ out.k = "int"
                        /\ out.v >= 0
                        /\ Unparseable(in) => out = CInt(0)

====
